---- MODULE Spec2Model ----
(***************************************************************************)
(* Sticky-notes board (src/src/App.tsx, src/src/Note.tsx): the note store  *)
(* (create / update / delete / drag-start), its z-index layering, and the  *)
(* drag and resize pointer handlers.                                       *)
(*                                                                         *)
(* Numbers are pixels.  Sizes and pointer positions are drawn from         *)
(* multiples of 10, so that 0.3 * width is an integer and the handlers'    *)
(* arithmetic is exact; floating-point rounding is not modelled.           *)
(***************************************************************************)
EXTENDS Integers, Sequences, FiniteSets, TLC

VARIABLES
    notes,          \* App.tsx:15  useState<NoteType[]>([])
    maxZIndex,      \* App.tsx:19  useState(1)
    draggedNoteId,  \* App.tsx:16  useState<string | null>(null)
    selectedSize,   \* App.tsx:17  useState<NoteSize>('medium')
    viewport,       \* window.innerWidth / window.innerHeight
    listeners,      \* the mousemove/mouseup pairs Note.tsx:77-78 and 191-192 put on document
    timers,         \* the pending setTimeout(onDragEnd, 10) callbacks of Note.tsx:70-72
    mouseDown,      \* the mouse button is held
    idsDrawn,       \* how many ids generateId has handed out (App.tsx:26-28)
    recency,        \* history kept by the pointer-driven actions: the ids of the live
                    \* notes a pointer handler has moved or resized, in the order of
                    \* the latest such update of each, latest last
    isLoading,      \* App.tsx:21  useState(true)
    dbSupported,    \* App.tsx:22  useState(true)
    saveTimer,      \* the pending setTimeout(saveData, 500) of App.tsx:281, if any:
                    \* the ticks left and the notes its closure holds
    loading,        \* the loadNotes() call of App.tsx:244 is in flight
    inFlight,       \* the saveNotes(notes) calls of App.tsx:273 in flight, by start
    deleting,       \* the ids whose deleteNoteFromDB(id) call of App.tsx:113 is in flight
    persisted,      \* the note set in the store of the persistence adapter
    sinceChange,    \* history: clock ticks since the note set was last set (saturating)
    writesSinceChange, \* history: saveNotes calls started since then
    settled,        \* history: a save started after the latest change has succeeded
    issued          \* history: the adapter calls issued so far

persistVars == <<isLoading, dbSupported, saveTimer, loading, inFlight, deleting,
                 persisted, sinceChange, writesSinceChange, settled, issued>>

vars == <<notes, maxZIndex, draggedNoteId, selectedSize, viewport,
          listeners, timers, mouseDown, idsDrawn, recency,
          isLoading, dbSupported, saveTimer, loading, inFlight, deleting,
          persisted, sinceChange, writesSinceChange, settled, issued>>

-----------------------------------------------------------------------------
(* Bounds of the model *)

NumIds == 2            \* notes ever created under Spec
NumBoardIds == 3       \* notes ever created under SpecBoard
MaxOffset == 3         \* largest in-band offset (zIndex % 1000) written under Spec
MaxBoardOffset == 6    \* the same under SpecBoard
MaxPointerOffset == 4  \* the same under SpecPointer
NumCreateIds == 2      \* notes ever created under SpecCreate
NumPersistIds == 1     \* notes ever created under SpecPersist
MaxPersistOffset == 2  \* largest in-band offset written under SpecPersist
DebounceTicks == 2     \* clock ticks the delay of setTimeout(saveData, 500) lasts (App.tsx:281)
MaxInFlight == 2       \* saveNotes calls in flight at a time under SpecPersist
NumDebounceIds == 1    \* notes ever created under SpecDebounce
MaxDebounceOffset == 2 \* largest in-band offset written under SpecDebounce
MaxDebounceInFlight == 1 \* saveNotes calls in flight at a time under SpecDebounce
NumGestureIds == 2     \* notes ever created under SpecGesture
MaxGestureOffset == 6  \* largest in-band offset written under SpecGesture
NumFrameIds == 2       \* notes ever created under SpecFrame
MaxFrameOffset == 3    \* largest in-band offset written under SpecFrame
NumIdentityIds == 2    \* strings generateId can return under SpecIdentity
NumIdentityNotes == 2  \* notes ever created under SpecIdentity
MaxIdentityOffset == 3 \* largest in-band offset written under SpecIdentity

(* Program constants *)

BandWidth == 1000          \* App.tsx:33, 38
DefaultPriority == 3       \* App.tsx:51
InitialMaxZIndex == 1      \* App.tsx:19
MinSize == 200             \* Note.tsx:106 (and 107, 114 ... 181, 182)
MinPartial == 100          \* Note.tsx:146, 147
TrashInset == 40           \* App.tsx:399, 400
TrashSize == 80            \* App.tsx:401, 402
TrashPadding == 50         \* App.tsx:187, 202

NoId == 0                  \* null (draggedNoteId)

\* App.tsx:8-12
NOTE_SIZES ==
    [small  |-> [width |-> 200, height |-> 200],
     medium |-> [width |-> 300, height |-> 250],
     large  |-> [width |-> 400, height |-> 300]]

NoteSizeNames == {"small", "medium", "large"}

-----------------------------------------------------------------------------
(* Helpers *)

Max2(a, b) == IF a >= b THEN a ELSE b
Min2(a, b) == IF a <= b THEN a ELSE b

\* Math.max(...xs) over a non-empty finite set of integers
MaxOf(S) == CHOOSE m \in S : \A k \in S : k <= m

Indices(ns) == 1..Len(ns)

\* ns.findIndex(n => n.id === id)  (0-based; -1 when absent)
FindIndex(ns, id) ==
    IF \E i \in Indices(ns) : ns[i].id = id
    THEN (CHOOSE i \in Indices(ns) :
              ns[i].id = id /\ \A j \in 1..(i - 1) : ns[j].id # id) - 1
    ELSE -1

\* a partial field set (Partial<NoteType>) is a function on the fields it carries
Has(updates, f) == f \in DOMAIN updates

\* { ...note, ...updates }
Merge(note, updates) ==
    [f \in (DOMAIN note) \cup (DOMAIN updates) |->
        IF f \in DOMAIN updates THEN updates[f] ELSE note[f]]

PriorityBase(priority) == (6 - priority) * BandWidth

\* length * 0.3, exact for the multiples of 10 the handlers are given here
Times03(length) == (3 * length) \div 10

OnTenGrid(v) == v % 10 = 0

-----------------------------------------------------------------------------
(* Layering policy and note store: App.tsx *)

\* calculateZIndex counting the notes of the priority instead of taking their highest offset
CalculateZIndex_Count(priority, ns) ==
    PriorityBase(priority) + Cardinality({i \in Indices(ns) : ns[i].priority = priority}) + 1

\* App.tsx:31-42
CalculateZIndex(priority, ns) ==
    LET samePriority == {i \in Indices(ns) : ns[i].priority = priority}
        maxInPriority == IF samePriority # {}
                         THEN MaxOf({ns[i].zIndex % BandWidth : i \in samePriority})
                         ELSE 0
    IN  PriorityBase(priority) + maxInPriority + 1

\* App.tsx:26-28: Math.random().toString(36).substr(2, 9), nine random base-36
\* digits.  The draws are taken to be pairwise different: the n-th draw is n.
GenerateId(drawn) == drawn + 1

\* createNote with the position taken as proposed, without Math.max / Math.min
NewNote_Unclamped(id, noteX, noteY, sizeName, vp, ns) ==
    LET size == NOTE_SIZES[sizeName]
    IN  [id       |-> id,
         x        |-> noteX,
         y        |-> noteY,
         width    |-> size.width,
         height   |-> size.height,
         content  |-> "",
         color    |-> "yellow",
         priority |-> DefaultPriority,
         zIndex   |-> CalculateZIndex(DefaultPriority, ns)]

\* App.tsx:54-64: the note createNote builds, for a proposed position
NewNote(id, noteX, noteY, sizeName, vp, ns) ==
    LET size == NOTE_SIZES[sizeName]
    IN  [id       |-> id,
         x        |-> Max2(0, Min2(noteX, vp.width - size.width)),
         y        |-> Max2(0, Min2(noteY, vp.height - size.height)),
         width    |-> size.width,
         height   |-> size.height,
         content  |-> "",
         color    |-> "yellow",
         priority |-> DefaultPriority,
         zIndex   |-> CalculateZIndex(DefaultPriority, ns)]

\* the map of updateNote without its test of the id: every note takes the fields
UpdateOne_NoIdCheck(note, id, updates, prev) ==
    LET updatedNote == Merge(note, updates)
    IN  IF Has(updates, "priority") /\ updates.priority # note.priority
        THEN [updatedNote EXCEPT !.zIndex = CalculateZIndex(updates.priority, prev)]
        ELSE IF Has(updates, "x") \/ Has(updates, "y")
                \/ Has(updates, "width") \/ Has(updates, "height")
             THEN [updatedNote EXCEPT !.zIndex = CalculateZIndex(note.priority, prev)]
             ELSE updatedNote

\* the map of updateNote bringing the note to the front on every update
UpdateOne_AlwaysFront(note, id, updates, prev) ==
    IF note.id = id
    THEN [Merge(note, updates) EXCEPT !.zIndex =
            CalculateZIndex(IF Has(updates, "priority") THEN updates.priority
                            ELSE note.priority, prev)]
    ELSE note

\* App.tsx:72-89: the map over prev
UpdateOne(note, id, updates, prev) ==
    IF note.id = id
    THEN LET updatedNote == Merge(note, updates)
         IN  IF Has(updates, "priority") /\ updates.priority # note.priority
             THEN [updatedNote EXCEPT !.zIndex = CalculateZIndex(updates.priority, prev)]
             ELSE IF Has(updates, "x") \/ Has(updates, "y")
                     \/ Has(updates, "width") \/ Has(updates, "height")
                  THEN [updatedNote EXCEPT !.zIndex = CalculateZIndex(note.priority, prev)]
                  ELSE updatedNote
    ELSE note

\* App.tsx:92-101: every note renumbered by its array position in its priority group
RecalculateAll(newNotes) ==
    [i \in Indices(newNotes) |->
        LET note == newNotes[i]
            samePriorityNotes == SelectSeq(newNotes, LAMBDA n : n.priority = note.priority)
            indexInPriority == FindIndex(samePriorityNotes, note.id)
        IN  [note EXCEPT !.zIndex = PriorityBase(note.priority) + indexInPriority + 1]]

\* updateNote renumbering the notes on every update
UpdateNoteResult_AlwaysRenumber(prev, id, updates) ==
    RecalculateAll([i \in Indices(prev) |-> UpdateOne(prev[i], id, updates, prev)])

\* updateNote putting a note back on the board when its id is not found
UpdateNoteResult_Upsert(prev, id, updates) ==
    IF \E i \in Indices(prev) : prev[i].id = id
    THEN LET newNotes == [i \in Indices(prev) |-> UpdateOne(prev[i], id, updates, prev)]
         IN  IF Has(updates, "priority") THEN RecalculateAll(newNotes) ELSE newNotes
    ELSE Append(prev, Merge([id |-> id, x |-> 0, y |-> 0, width |-> 300, height |-> 250,
                             content |-> "", color |-> "yellow",
                             priority |-> DefaultPriority,
                             zIndex |-> CalculateZIndex(DefaultPriority, prev)],
                            updates))

\* App.tsx:70-105: the state updater of updateNote
UpdateNoteResult(prev, id, updates) ==
    LET newNotes == [i \in Indices(prev) |-> UpdateOne(prev[i], id, updates, prev)]
    IN  IF Has(updates, "priority") THEN RecalculateAll(newNotes) ELSE newNotes

\* deleteNote by splice at findIndex: an absent id gives -1, which removes the last note
DeleteNoteResult_Splice(prev, id) ==
    IF \E i \in Indices(prev) : prev[i].id = id
    THEN SelectSeq(prev, LAMBDA n : n.id # id)
    ELSE SubSeq(prev, 1, Len(prev) - 1)

\* App.tsx:108
DeleteNoteResult(prev, id) == SelectSeq(prev, LAMBDA n : n.id # id)

\* App.tsx:125-132
DragStartResult(prev, id, maxZ) ==
    [i \in Indices(prev) |->
        IF prev[i].id = id THEN [prev[i] EXCEPT !.zIndex = maxZ + 1] ELSE prev[i]]

HasId(ns, id) == \E i \in Indices(ns) : ns[i].id = id

\* notes.find(n => n.id === id), for an id that is in ns
NoteOf(ns, id) == ns[CHOOSE i \in Indices(ns) : ns[i].id = id]

\* App.tsx:135-171: handleDragEnd, with the draggedNoteId and notes its closure holds
DragEndResult(prev, closure, vp) ==
    IF closure.draggedNoteId = NoId \/ ~HasId(closure.notes, closure.draggedNoteId)
    THEN prev
    ELSE LET note == closure.notes[CHOOSE i \in Indices(closure.notes) :
                        /\ closure.notes[i].id = closure.draggedNoteId
                        /\ \A j \in 1..(i - 1) : closure.notes[j].id # closure.draggedNoteId]
             notePartialWidth == Times03(note.width)
             notePartialHeight == Times03(note.height)
             minX == -(note.width - notePartialWidth)
             maxX == vp.width - notePartialWidth
             minY == -(note.height - notePartialHeight)
             maxY == vp.height - notePartialHeight
         IN  IF note.x < minX \/ note.x > maxX \/ note.y < minY \/ note.y > maxY
             THEN UpdateNoteResult(prev, closure.draggedNoteId,
                      [x |-> Max2(minX, Min2(note.x, maxX)),
                       y |-> Max2(minY, Min2(note.y, maxY))])
             ELSE prev

\* App.tsx:200-206: the pointer is over the trash zone, padded
IsOverTrash(clientX, clientY, vp) ==
    LET left == vp.width - TrashInset - TrashSize
        right == vp.width - TrashInset
        top == vp.height - TrashInset - TrashSize
        bottom == vp.height - TrashInset
    IN  /\ clientX >= left - TrashPadding
        /\ clientX <= right + TrashPadding
        /\ clientY >= top - TrashPadding
        /\ clientY <= bottom + TrashPadding

-----------------------------------------------------------------------------
(* Pointer handlers: Note.tsx *)

\* the drag listener holding a handleDragEnd that knows the note being dragged
DragListener_KnowsDragged(note, clientX, clientY, dragged, ns) ==
    [kind   |-> "drag",
     id     |-> note.id,
     startX |-> clientX - note.x,
     startY |-> clientY - note.y,
     width  |-> note.width,
     height |-> note.height,
     onDragEnd |-> [draggedNoteId |-> note.id, notes |-> << >>]]

\* Note.tsx:45-46 and the closure of handleMouseMove / handleMouseUp (48-75).
\* onDragEnd is the handleDragEnd of the render the mousedown came from: it
\* holds that render's draggedNoteId and notes (App.tsx:171); it reads notes
\* only when that draggedNoteId is set (App.tsx:139), so the copy is kept then.
DragListener(note, clientX, clientY, dragged, ns) ==
    [kind   |-> "drag",
     id     |-> note.id,
     startX |-> clientX - note.x,
     startY |-> clientY - note.y,
     width  |-> note.width,
     height |-> note.height,
     onDragEnd |-> [draggedNoteId |-> dragged,
                    notes |-> IF dragged = NoId THEN << >> ELSE ns]]

\* Note.tsx:87-92
ResizeListener(note, handle, clientX, clientY) ==
    [kind          |-> "resize",
     id            |-> note.id,
     handle        |-> handle,
     initialMouseX |-> clientX,
     initialMouseY |-> clientY,
     initialWidth  |-> note.width,
     initialHeight |-> note.height,
     initialX      |-> note.x,
     initialY      |-> note.y]

\* the drag's mousemove without its boundary constraints
DragEmission_Unclamped(l, clientX, clientY, vp) ==
    [x |-> clientX - l.startX, y |-> clientY - l.startY]

\* Note.tsx:48-65: what the drag's mousemove passes to onUpdate
DragEmission(l, clientX, clientY, vp) ==
    LET newX == clientX - l.startX
        newY == clientY - l.startY
        notePartialWidth == Times03(l.width)
        notePartialHeight == Times03(l.height)
        minX == -(l.width - notePartialWidth)
        maxX == vp.width - notePartialWidth
        minY == -(l.height - notePartialHeight)
        maxY == vp.height - notePartialHeight
    IN  [x |-> Max2(minX, Min2(newX, maxX)),
         y |-> Max2(minY, Min2(newY, maxY))]

\* Note.tsx:103-143: the switch on the handle
ResizeByHandle(l, deltaX, deltaY) ==
    CASE l.handle = "se" ->
            [width  |-> Max2(MinSize, l.initialWidth + deltaX),
             height |-> Max2(MinSize, l.initialHeight + deltaY),
             x |-> l.initialX,
             y |-> l.initialY]
      [] l.handle = "sw" ->
            LET actualWidthSW == Max2(MinSize, l.initialWidth - deltaX)
            IN  [width  |-> Max2(MinSize, l.initialWidth - deltaX),
                 height |-> Max2(MinSize, l.initialHeight + deltaY),
                 x |-> l.initialX + (l.initialWidth - actualWidthSW),
                 y |-> l.initialY]
      [] l.handle = "ne" ->
            LET actualHeightNE == Max2(MinSize, l.initialHeight - deltaY)
            IN  [width  |-> Max2(MinSize, l.initialWidth + deltaX),
                 height |-> Max2(MinSize, l.initialHeight - deltaY),
                 x |-> l.initialX,
                 y |-> l.initialY + (l.initialHeight - actualHeightNE)]
      [] l.handle = "nw" ->
            LET actualWidthNW == Max2(MinSize, l.initialWidth - deltaX)
                actualHeightNW == Max2(MinSize, l.initialHeight - deltaY)
            IN  [width  |-> Max2(MinSize, l.initialWidth - deltaX),
                 height |-> Max2(MinSize, l.initialHeight - deltaY),
                 x |-> l.initialX + (l.initialWidth - actualWidthNW),
                 y |-> l.initialY + (l.initialHeight - actualHeightNW)]

\* Note.tsx:145-176: the bounds check on one axis.  leading is TRUE for the
\* handles that move this axis' near edge (sw, nw for x; ne, nw for y).
BoundsCheck(pos, len, viewportLen, leading) ==
    LET notePartial == Max2(MinPartial, Times03(len))
        min == -(len - notePartial)
        max == viewportLen - notePartial
        overflow == min - pos
        pos1 == IF pos < min THEN min ELSE pos
        len1 == IF pos < min /\ leading THEN len - overflow ELSE len
        pos2 == IF pos1 > max THEN max ELSE pos1
    IN  [pos |-> pos2, len |-> len1]

\* Note.tsx:94-184: what the resize's mousemove passes to onUpdate
ResizeEmission(l, clientX, clientY, vp) ==
    LET deltaX == clientX - l.initialMouseX
        deltaY == clientY - l.initialMouseY
        new == ResizeByHandle(l, deltaX, deltaY)
        h == BoundsCheck(new.x, new.width, vp.width, l.handle \in {"sw", "nw"})
        v == BoundsCheck(new.y, new.height, vp.height, l.handle \in {"ne", "nw"})
    IN  [x |-> h.pos,
         y |-> v.pos,
         width  |-> Max2(MinSize, h.len),
         height |-> Max2(MinSize, v.len)]

Emission(l, clientX, clientY, vp) ==
    IF l.kind = "drag" THEN DragEmission(l, clientX, clientY, vp)
    ELSE ResizeEmission(l, clientX, clientY, vp)

\* one mousemove event: every listener on document calls onUpdate, in the
\* order the listeners were added
RECURSIVE MouseMoveResult(_, _, _, _, _)
MouseMoveResult(prev, ls, clientX, clientY, vp) ==
    IF ls = << >> THEN prev
    ELSE MouseMoveResult(
            UpdateNoteResult(prev, Head(ls).id, Emission(Head(ls), clientX, clientY, vp)),
            Tail(ls), clientX, clientY, vp)

\* Note.tsx:67-75: the timers the drag listeners' handleMouseUp set
DragEndTimers(ls) ==
    LET drags == SelectSeq(ls, LAMBDA l : l.kind = "drag")
    IN  [k \in Indices(drags) |-> drags[k].onDragEnd]

\* the corner of the note a resize handle sits on
HandleCorner(note, handle) ==
    [x |-> IF handle \in {"se", "ne"} THEN note.x + note.width ELSE note.x,
     y |-> IF handle \in {"se", "sw"} THEN note.y + note.height ELSE note.y]

Handles == {"se", "sw", "ne", "nw"}

InViewport(clientX, clientY, vp) ==
    /\ 0 <= clientX /\ clientX <= vp.width
    /\ 0 <= clientY /\ clientY <= vp.height

InsideNote(note, clientX, clientY) ==
    /\ note.x <= clientX /\ clientX <= note.x + note.width
    /\ note.y <= clientY /\ clientY <= note.y + note.height

\* every in-band offset written stays within the model's bound
OffsetsBounded(ns, maxZ, cap) ==
    /\ \A i \in Indices(ns) : ns[i].zIndex % BandWidth <= cap
    /\ maxZ % BandWidth <= cap

-----------------------------------------------------------------------------
(* Persistence: the effects of App.tsx:237-284 and the adapter behind them *)

\* the auto-save effect arming its timer whether or not persistence is supported
AutoSaveTimer_Always(loadingNow, supported, ns, timer) ==
    <<[remaining |-> DebounceTicks, notes |-> ns]>>

\* the auto-save effect without the isLoading part of its guard
AutoSaveTimer_IgnoresLoading(loadingNow, supported, ns, timer) ==
    IF supported
    THEN <<[remaining |-> DebounceTicks, notes |-> ns]>>
    ELSE << >>

\* the auto-save effect leaving a timer that is already running as it is
AutoSaveTimer_KeepRunning(loadingNow, supported, ns, timer) ==
    IF ~loadingNow /\ supported
    THEN IF timer # << >> THEN <<[timer[1] EXCEPT !.notes = ns]>>
         ELSE <<[remaining |-> DebounceTicks, notes |-> ns]>>
    ELSE << >>

\* App.tsx:269-284: the auto-save effect ran again: its cleanup cleared the
\* timer of the previous run (282), and a new one is set if the guard holds (270)
AutoSaveTimer(loadingNow, supported, ns, timer) ==
    IF ~loadingNow /\ supported
    THEN <<[remaining |-> DebounceTicks, notes |-> ns]>>
    ELSE << >>

\* setNotes was called: notes is a new array, so the auto-save effect runs
\* again (its dependency list, App.tsx:284)
NotesSet ==
    /\ saveTimer' = AutoSaveTimer(isLoading, dbSupported, notes', saveTimer)
    /\ sinceChange' = 0
    /\ writesSinceChange' = 0
    /\ settled' = FALSE
    /\ inFlight' = [k \in Indices(inFlight) |->
                        [inFlight[k] EXCEPT !.afterLatestChange = FALSE]]
    /\ UNCHANGED <<isLoading, dbSupported, loading, persisted>>

\* setNotes was called by an operation that issues no adapter call
StoreWrite == NotesSet /\ UNCHANGED <<deleting, issued>>

\* App.tsx:107-119: deleteNote's setNotes, and its deleteNoteFromDB(id) under
\* the guard of line 111
DeleteNoteEffects(id) ==
    /\ NotesSet
    /\ IF dbSupported
       THEN deleting' = deleting \cup {id} /\ issued' = issued \cup {"deleteOne"}
       ELSE UNCHANGED <<deleting, issued>>

\* App.tsx:139-162: handleDragEnd, run with this closure, calls updateNote
DragEndUpdates(closure, vp) ==
    /\ closure.draggedNoteId # NoId
    /\ HasId(closure.notes, closure.draggedNoteId)
    /\ LET note == NoteOf(closure.notes, closure.draggedNoteId)
       IN  \/ note.x < -(note.width - Times03(note.width))
           \/ note.x > vp.width - Times03(note.width)
           \/ note.y < -(note.height - Times03(note.height))
           \/ note.y > vp.height - Times03(note.height)

\* the session after a startup that found no persistence support
\* (App.tsx:240, 262): memory only, no timer, no adapter call
MemoryOnly ==
    /\ isLoading = FALSE
    /\ dbSupported = FALSE
    /\ saveTimer = << >>
    /\ loading = FALSE
    /\ inFlight = << >>
    /\ deleting = {}
    /\ persisted = {}
    /\ sinceChange = 0
    /\ writesSinceChange = 0
    /\ settled = FALSE
    /\ issued = {}

-----------------------------------------------------------------------------
(* Inputs of the model *)

TheViewport == [width |-> 1000, height |-> 800]

\* proposed positions for create(position): inside the viewport, and beyond its edge
CreatePoints == {<<100, 100>>, <<900, 700>>}

\* field sets of update(id, fields)
UpdateSamples ==
    << << >>,
       [x |-> 100, y |-> 100],
       [x |-> 100, y |-> 100, width |-> 300, height |-> 250],
       [width |-> 100, height |-> 100],
       [priority |-> 1],
       [priority |-> 3] >>

-----------------------------------------------------------------------------
(* The store's operations *)

PointerUnchanged == UNCHANGED <<selectedSize, viewport, listeners, timers, mouseDown>>

\* App.tsx:46-68
CreateNote(noteX, noteY, numIds, cap) ==
    LET id == GenerateId(idsDrawn)
        newNote == NewNote(id, noteX, noteY, selectedSize, viewport, notes)
    IN  /\ id <= numIds
        /\ idsDrawn' = idsDrawn + 1
        /\ notes' = Append(notes, newNote)
        /\ maxZIndex' = Max2(maxZIndex, newNote.zIndex)
        /\ OffsetsBounded(notes', maxZIndex', cap)
        /\ UNCHANGED draggedNoteId
        /\ PointerUnchanged
        /\ StoreWrite

\* App.tsx:70-105
UpdateNote(id, updates, cap) ==
    /\ notes' = UpdateNoteResult(notes, id, updates)
    /\ OffsetsBounded(notes', maxZIndex, cap)
    /\ UNCHANGED <<maxZIndex, draggedNoteId, idsDrawn>>
    /\ PointerUnchanged
    /\ StoreWrite

\* App.tsx:107-119
DeleteNote(id) ==
    /\ notes' = DeleteNoteResult(notes, id)
    /\ UNCHANGED <<maxZIndex, draggedNoteId, idsDrawn>>
    /\ PointerUnchanged
    /\ DeleteNoteEffects(id)

\* App.tsx:121-133
HandleDragStart(id, cap) ==
    /\ draggedNoteId' = id
    /\ notes' = DragStartResult(notes, id, maxZIndex)
    /\ maxZIndex' = IF HasId(notes, id) THEN maxZIndex + 1 ELSE maxZIndex
    /\ OffsetsBounded(notes', maxZIndex', cap)
    /\ UNCHANGED idsDrawn
    /\ PointerUnchanged
    /\ StoreWrite

Init ==
    /\ notes = << >>
    /\ maxZIndex = InitialMaxZIndex
    /\ draggedNoteId = NoId
    /\ selectedSize = "medium"
    /\ viewport = TheViewport
    /\ listeners = << >>
    /\ timers = << >>
    /\ mouseDown = FALSE
    /\ idsDrawn = 0
    /\ recency = << >>
    /\ MemoryOnly

\* the store driven through its operations: create(position), update(id, fields),
\* delete(id) with any id, and drag-start on a note on the board
Next ==
    \/ \E p \in CreatePoints :
            CreateNote(p[1], p[2], NumIds, MaxOffset) /\ UNCHANGED recency
    \/ \E id \in 1..NumIds, k \in 1..Len(UpdateSamples) :
            UpdateNote(id, UpdateSamples[k], MaxOffset) /\ UNCHANGED recency
    \/ \E id \in 1..NumIds : DeleteNote(id) /\ UNCHANGED recency
    \/ \E i \in Indices(notes) :
            HandleDragStart(notes[i].id, MaxOffset) /\ UNCHANGED recency

Spec == Init /\ [][Next]_vars

-----------------------------------------------------------------------------
(* The board driven by the pointer: the handlers of Note.tsx and App.tsx *)

\* ids of rs that are still in ns, then id moved to the end
Touch(rs, ns, id) ==
    LET live == SelectSeq(rs, LAMBDA r : r # id /\ HasId(ns, r))
    IN  IF HasId(ns, id) THEN Append(live, id) ELSE live

RECURSIVE TouchAll(_, _, _)
TouchAll(rs, ns, ls) ==
    IF ls = << >> THEN SelectSeq(rs, LAMBDA r : HasId(ns, r))
    ELSE TouchAll(Touch(rs, ns, Head(ls).id), ns, Tail(ls))

\* App.tsx:326: the New Note button, createNote() with a random position in
\* [0, innerWidth - width) x [0, innerHeight - height)  (App.tsx:48-49)
ClickNewNote(noteX, noteY, numIds, cap) ==
    /\ ~mouseDown
    /\ 0 <= noteX /\ noteX < viewport.width - NOTE_SIZES[selectedSize].width
    /\ 0 <= noteY /\ noteY < viewport.height - NOTE_SIZES[selectedSize].height
    /\ CreateNote(noteX, noteY, numIds, cap)
    /\ UNCHANGED recency

\* Note.tsx:32-79: mousedown on note i outside its textarea, handles and pickers
NoteMouseDown(i, clientX, clientY, cap) ==
    /\ ~mouseDown
    /\ InViewport(clientX, clientY, viewport)
    /\ InsideNote(notes[i], clientX, clientY)
    /\ OnTenGrid(notes[i].width) /\ OnTenGrid(notes[i].height)
    /\ draggedNoteId' = notes[i].id
    /\ notes' = DragStartResult(notes, notes[i].id, maxZIndex)
    /\ maxZIndex' = maxZIndex + 1
    /\ OffsetsBounded(notes', maxZIndex', cap)
    /\ listeners' = Append(listeners,
                        DragListener(notes[i], clientX, clientY, draggedNoteId, notes))
    /\ mouseDown' = TRUE
    /\ UNCHANGED <<selectedSize, viewport, timers, idsDrawn, recency>>
    /\ StoreWrite

\* Note.tsx:82-193: mousedown on a resize handle of note i, the pointer on the corner
ResizeMouseDown(i, handle) ==
    LET corner == HandleCorner(notes[i], handle)
    IN  /\ ~mouseDown
        /\ InViewport(corner.x, corner.y, viewport)
        /\ OnTenGrid(corner.x) /\ OnTenGrid(corner.y)
        /\ OnTenGrid(notes[i].width) /\ OnTenGrid(notes[i].height)
        /\ listeners' = Append(listeners, ResizeListener(notes[i], handle, corner.x, corner.y))
        /\ mouseDown' = TRUE
        /\ UNCHANGED <<notes, maxZIndex, draggedNoteId, selectedSize, viewport,
                       timers, idsDrawn, recency>>
        /\ UNCHANGED persistVars

\* a mousemove on document: the handleMouseMove of every listener there
\* (Note.tsx:48-65, 94-184).  App.tsx:181-194 sets only the trash hover flag.
MouseMove(clientX, clientY, cap) ==
    /\ listeners # << >>
    /\ notes' = MouseMoveResult(notes, listeners, clientX, clientY, viewport)
    /\ OffsetsBounded(notes', maxZIndex, cap)
    /\ recency' = TouchAll(recency, notes, listeners)
    /\ UNCHANGED <<maxZIndex, draggedNoteId, selectedSize, viewport,
                   listeners, timers, mouseDown, idsDrawn>>
    /\ StoreWrite

\* a mouseup on document.  App.tsx:196-225 runs first, in the capture phase,
\* while a note is dragged; over the trash it deletes the note and stops the
\* event, so the listeners of Note.tsx stay on document.  Otherwise
\* Note.tsx:67-75 and 186-189 run: the drag listeners set their timers, and
\* all listeners are removed.
MouseUp(clientX, clientY) ==
    /\ mouseDown
    /\ mouseDown' = FALSE
    /\ draggedNoteId' = NoId
    /\ IF draggedNoteId # NoId /\ IsOverTrash(clientX, clientY, viewport)
       THEN /\ notes' = DeleteNoteResult(notes, draggedNoteId)
            /\ recency' = SelectSeq(recency, LAMBDA r : HasId(notes', r))
            /\ DeleteNoteEffects(draggedNoteId)
            /\ UNCHANGED <<listeners, timers>>
       ELSE /\ timers' = timers \o DragEndTimers(listeners)
            /\ listeners' = << >>
            /\ UNCHANGED <<notes, recency>>
            /\ UNCHANGED persistVars
    /\ UNCHANGED <<maxZIndex, selectedSize, viewport, idsDrawn>>

\* Note.tsx:70-72: the timer fires and calls the onDragEnd it holds (App.tsx:135-171)
DragEndTimeout(cap) ==
    /\ timers # << >>
    /\ timers' = Tail(timers)
    /\ notes' = DragEndResult(notes, Head(timers), viewport)
    /\ OffsetsBounded(notes', maxZIndex, cap)
    /\ draggedNoteId' = IF Head(timers).draggedNoteId # NoId THEN NoId ELSE draggedNoteId
    /\ recency' = IF notes' # notes THEN Touch(recency, notes, Head(timers).draggedNoteId)
                  ELSE recency
    /\ IF DragEndUpdates(Head(timers), viewport) THEN StoreWrite
       ELSE UNCHANGED persistVars
    /\ UNCHANGED <<maxZIndex, selectedSize, viewport, listeners, mouseDown, idsDrawn>>

\* Note.tsx:205-210: the priority selector of note i is set to another value
PriorityChange(i, priority, cap) ==
    /\ ~mouseDown
    /\ priority # notes[i].priority
    /\ UpdateNote(notes[i].id, [priority |-> priority], cap)
    /\ UNCHANGED recency

\* priorities the selector is set to in the model (Note.tsx:254-258 offers 1..5)
PrioritySamples == {1, 2, 3}

\* where notes are created, pressed, moved to and released on the board
BoardCreatePoints == {<<100, 100>>}
BoardPoints == {<<150, 150>>}
BoardReleasePoints == {<<150, 150>>, <<900, 700>>}

NextBoard ==
    \/ \E p \in BoardCreatePoints : ClickNewNote(p[1], p[2], NumBoardIds, MaxBoardOffset)
    \/ \E i \in Indices(notes), p \in BoardPoints : NoteMouseDown(i, p[1], p[2], MaxBoardOffset)
    \/ \E p \in BoardPoints : MouseMove(p[1], p[2], MaxBoardOffset)
    \/ \E p \in BoardReleasePoints : MouseUp(p[1], p[2])
    \/ DragEndTimeout(MaxBoardOffset)
    \/ \E i \in Indices(notes), priority \in PrioritySamples :
            PriorityChange(i, priority, MaxBoardOffset)

SpecBoard == Init /\ [][NextBoard]_vars

-----------------------------------------------------------------------------
(* Drag gestures and the trash zone: notes are created, dragged and dropped, *)
(* on the board or over the trash                                            *)

\* where notes are created, and where the pointer presses, moves and releases:
\* on the board, and over the trash zone
GestureCreatePoints == {<<100, 100>>}
GesturePoints == {<<150, 150>>, <<900, 700>>}

NextGesture ==
    \/ \E p \in GestureCreatePoints :
            ClickNewNote(p[1], p[2], NumGestureIds, MaxGestureOffset)
    \/ \E i \in Indices(notes), p \in GesturePoints :
            NoteMouseDown(i, p[1], p[2], MaxGestureOffset)
    \/ \E p \in GesturePoints : MouseMove(p[1], p[2], MaxGestureOffset)
    \/ \E p \in GesturePoints : MouseUp(p[1], p[2])
    \/ DragEndTimeout(MaxGestureOffset)

SpecGesture == Init /\ [][NextGesture]_vars

-----------------------------------------------------------------------------
(* One note under the pointer: drag and resize gestures on a note of any size *)

\* where the note was created, and where the pointer presses, moves and releases
PointerCreatePoints == {<<0, 0>>}
PointerPoints == {<<0, 0>>, <<150, 150>>, <<1000, 800>>}

\* the board after a size was selected (App.tsx:17) and one note created (App.tsx:46-68)
InitPointer ==
    \E sizeName \in NoteSizeNames, p \in PointerCreatePoints :
        LET newNote == NewNote(GenerateId(0), p[1], p[2], sizeName, TheViewport, << >>)
        IN  /\ notes = <<newNote>>
            /\ maxZIndex = Max2(InitialMaxZIndex, newNote.zIndex)
            /\ draggedNoteId = NoId
            /\ selectedSize = sizeName
            /\ viewport = TheViewport
            /\ listeners = << >>
            /\ timers = << >>
            /\ mouseDown = FALSE
            /\ idsDrawn = 1
            /\ recency = << >>
            /\ MemoryOnly

NextPointer ==
    \/ \E i \in Indices(notes), p \in PointerPoints :
            NoteMouseDown(i, p[1], p[2], MaxPointerOffset)
    \/ \E i \in Indices(notes), handle \in Handles : ResizeMouseDown(i, handle)
    \/ \E p \in PointerPoints : MouseMove(p[1], p[2], MaxPointerOffset)
    \/ \E p \in PointerPoints : MouseUp(p[1], p[2])
    \/ DragEndTimeout(MaxPointerOffset)

SpecPointer == InitPointer /\ [][NextPointer]_vars

-----------------------------------------------------------------------------
(* Creating notes: any size, in any viewport the application supports *)

\* viewports: the one of the other specifications, the minimum the
\* application asks for (App.tsx:316), and a larger screen
Viewports ==
    {TheViewport, [width |-> 1024, height |-> 768], [width |-> 1920, height |-> 1080]}

\* positions supplied to createNote(x, y): before the origin, inside, and
\* beyond the right and bottom edge of every viewport
SuppliedPoints == {<<-50, -20>>, <<100, 100>>, <<2000, 1200>>}

\* values of Math.random() * (innerWidth - width), Math.random() * (innerHeight - height)
RandomPoints == {<<0, 0>>, <<599, 467>>}

\* App.tsx:334: the size selector
SelectSize(sizeName) ==
    /\ sizeName # selectedSize
    /\ selectedSize' = sizeName
    /\ UNCHANGED <<notes, maxZIndex, draggedNoteId, viewport, listeners, timers,
                   mouseDown, idsDrawn, recency>>
    /\ UNCHANGED persistVars

InitCreate ==
    /\ notes = << >>
    /\ maxZIndex = InitialMaxZIndex
    /\ draggedNoteId = NoId
    /\ selectedSize = "medium"
    /\ viewport \in Viewports
    /\ listeners = << >>
    /\ timers = << >>
    /\ mouseDown = FALSE
    /\ idsDrawn = 0
    /\ recency = << >>
    /\ MemoryOnly

NextCreate ==
    \/ \E sizeName \in NoteSizeNames : SelectSize(sizeName)
    \/ \E p \in SuppliedPoints :
            CreateNote(p[1], p[2], NumCreateIds, NumCreateIds) /\ UNCHANGED recency
    \/ \E p \in RandomPoints : ClickNewNote(p[1], p[2], NumCreateIds, NumCreateIds)

SpecCreate == InitCreate /\ [][NextCreate]_vars

-----------------------------------------------------------------------------
(* The session with its persistence: startup, the debounced auto-save, and   *)
(* the adapter's asynchronous calls.  The adapter (./indexedDB) is modelled  *)
(* by its contract: loadAll gives the persisted set or fails, saveAll        *)
(* replaces the persisted set as one step when it completes or fails and     *)
(* leaves it, deleteOne removes one id or fails; calls complete in any order.*)

\* a note an earlier session saved
StoredNote ==
    [id |-> 100, x |-> 100, y |-> 100, width |-> 300, height |-> 250,
     content |-> "", color |-> "yellow", priority |-> DefaultPriority, zIndex |-> 3001]

\* what the adapter holds when the session starts
StoredSets == {{}, {StoredNote}}

\* the array loadNotes resolves to: the persisted notes, by id
RECURSIVE LoadedNotes(_)
LoadedNotes(S) ==
    IF S = {} THEN << >>
    ELSE LET first == CHOOSE n \in S : \A m \in S : n.id <= m.id
         IN  <<first>> \o LoadedNotes(S \ {first})

\* App.tsx:247-250: priority: note.priority || 3
WithPriority(savedNotes) ==
    [k \in Indices(savedNotes) |->
        IF "priority" \in DOMAIN savedNotes[k] /\ savedNotes[k].priority # 0
        THEN savedNotes[k]
        ELSE Merge(savedNotes[k], [priority |-> DefaultPriority])]

NotesAsSet(ns) == {ns[i] : i \in Indices(ns)}

\* the effects of the mount.  App.tsx:238-266, up to the await: the
\* capability probe, then loadNotes() or, without support, straight to
\* setIsLoading(false); and the auto-save effect (269-284) run with the
\* isLoading and dbSupported of that moment
InitializeApp(supported) ==
    /\ isLoading /\ ~loading
    /\ dbSupported' = supported
    /\ IF supported
       THEN /\ loading' = TRUE
            /\ issued' = issued \cup {"loadAll"}
            /\ UNCHANGED isLoading
       ELSE /\ isLoading' = FALSE
            /\ UNCHANGED <<loading, issued>>
    /\ saveTimer' = AutoSaveTimer(isLoading', supported, notes, saveTimer)
    /\ UNCHANGED <<notes, maxZIndex, draggedNoteId, selectedSize, viewport, listeners,
                   timers, mouseDown, idsDrawn, recency, inFlight, deleting, persisted,
                   sinceChange, writesSinceChange, settled>>

\* App.tsx:244-262: loadNotes() resolved (ok) or threw; then setIsLoading(false),
\* and the auto-save effect runs with isLoading false
LoadDone(ok) ==
    /\ loading
    /\ loading' = FALSE
    /\ isLoading' = FALSE
    /\ LET savedNotes == LoadedNotes(persisted)
           notesWithPriority == WithPriority(savedNotes)
       IN  IF ok /\ Len(savedNotes) > 0
           THEN /\ notes' = notesWithPriority
                /\ maxZIndex' = MaxOf({notesWithPriority[k].zIndex :
                                           k \in Indices(notesWithPriority)})
           ELSE UNCHANGED <<notes, maxZIndex>>
    /\ saveTimer' = AutoSaveTimer(FALSE, dbSupported, notes', saveTimer)
    /\ sinceChange' = 0
    /\ writesSinceChange' = 0
    /\ settled' = FALSE
    /\ UNCHANGED <<draggedNoteId, selectedSize, viewport, listeners, timers, mouseDown,
                   idsDrawn, recency, dbSupported, inFlight, deleting, persisted, issued>>

\* one tick of the clock
Tick ==
    /\ saveTimer' = IF saveTimer = << >> THEN saveTimer
                    ELSE <<[saveTimer[1] EXCEPT !.remaining = Max2(0, @ - 1)]>>
    /\ sinceChange' = Min2(DebounceTicks, sinceChange + 1)
    /\ UNCHANGED <<notes, maxZIndex, draggedNoteId, selectedSize, viewport, listeners,
                   timers, mouseDown, idsDrawn, recency, isLoading, dbSupported, loading,
                   inFlight, deleting, persisted, writesSinceChange, settled, issued>>

\* App.tsx:271-281: the timer fires and saveData calls saveNotes(notes) with
\* the notes of the render that set the timer
SaveStarts(maxInFlight) ==
    /\ saveTimer # << >>
    /\ saveTimer[1].remaining = 0
    /\ Len(inFlight) < maxInFlight
    /\ inFlight' = Append(inFlight, [notes |-> saveTimer[1].notes,
                                      afterLatestChange |-> TRUE])
    /\ saveTimer' = << >>
    /\ writesSinceChange' = writesSinceChange + 1
    /\ issued' = issued \cup {"saveAll"}
    /\ UNCHANGED <<notes, maxZIndex, draggedNoteId, selectedSize, viewport, listeners,
                   timers, mouseDown, idsDrawn, recency, isLoading, dbSupported, loading,
                   deleting, persisted, sinceChange, settled>>

\* App.tsx:273-277: the k-th saveNotes call in flight resolves (ok) or rejects
SaveDone(k, ok) ==
    /\ k \in Indices(inFlight)
    /\ inFlight' = SubSeq(inFlight, 1, k - 1) \o SubSeq(inFlight, k + 1, Len(inFlight))
    /\ persisted' = IF ok THEN NotesAsSet(inFlight[k].notes) ELSE persisted
    /\ settled' = (settled \/ (ok /\ inFlight[k].afterLatestChange))
    /\ UNCHANGED <<notes, maxZIndex, draggedNoteId, selectedSize, viewport, listeners,
                   timers, mouseDown, idsDrawn, recency, isLoading, dbSupported, saveTimer,
                   loading, deleting, sinceChange, writesSinceChange, issued>>

\* App.tsx:112-117: the deleteNoteFromDB(id) call in flight resolves (ok) or rejects
DeleteDone(id, ok) ==
    /\ id \in deleting
    /\ deleting' = deleting \ {id}
    /\ persisted' = IF ok THEN {n \in persisted : n.id # id} ELSE persisted
    /\ UNCHANGED <<notes, maxZIndex, draggedNoteId, selectedSize, viewport, listeners,
                   timers, mouseDown, idsDrawn, recency, isLoading, dbSupported, saveTimer,
                   loading, inFlight, sinceChange, writesSinceChange, settled, issued>>

\* the construction of App (App.tsx:15-22), over what an earlier session left
InitPersist ==
    /\ notes = << >>
    /\ maxZIndex = InitialMaxZIndex
    /\ draggedNoteId = NoId
    /\ selectedSize = "medium"
    /\ viewport = TheViewport
    /\ listeners = << >>
    /\ timers = << >>
    /\ mouseDown = FALSE
    /\ idsDrawn = 0
    /\ recency = << >>
    /\ isLoading = TRUE
    /\ dbSupported = TRUE
    /\ saveTimer = << >>
    /\ loading = FALSE
    /\ inFlight = << >>
    /\ deleting = {}
    /\ persisted \in StoredSets
    /\ sinceChange = 0
    /\ writesSinceChange = 0
    /\ settled = FALSE
    /\ issued = {}

\* ids update and delete are called with: those ever drawn, and the stored one
PersistIds(numIds) == (1..numIds) \cup {StoredNote.id}

\* a step of the session; the store operations are reachable once the
\* loading screen is gone (App.tsx:297-308), and delete is offered by the
\* notes on the board (App.tsx:381-390)
PersistStep(numIds, cap, maxInFlight) ==
    \/ \E supported \in BOOLEAN : InitializeApp(supported)
    \/ \E ok \in BOOLEAN : LoadDone(ok)
    \/ Tick
    \/ SaveStarts(maxInFlight)
    \/ \E k \in 1..maxInFlight, ok \in BOOLEAN : SaveDone(k, ok)
    \/ \E id \in PersistIds(numIds), ok \in BOOLEAN : DeleteDone(id, ok)
    \/ ~isLoading /\ CreateNote(100, 100, numIds, cap) /\ UNCHANGED recency
    \/ ~isLoading /\ \E id \in PersistIds(numIds) :
                        UpdateNote(id, [x |-> 100, y |-> 100], cap)
                  /\ UNCHANGED recency
    \/ ~isLoading /\ \E id \in PersistIds(numIds) : HasId(notes, id) /\ DeleteNote(id)
                  /\ UNCHANGED recency

NextPersist == PersistStep(NumPersistIds, MaxPersistOffset, MaxInFlight)

SpecPersist == InitPersist /\ [][NextPersist]_vars

NextDebounce == PersistStep(NumDebounceIds, MaxDebounceOffset, MaxDebounceInFlight)

\* the same session where time passes, a timer that is due fires, and a
\* saveNotes call in flight completes
SpecDebounce ==
    /\ InitPersist /\ [][NextDebounce]_vars
    /\ WF_vars(Tick)
    /\ WF_vars(SaveStarts(MaxDebounceInFlight))
    /\ WF_vars(\E k \in 1..MaxDebounceInFlight, ok \in BOOLEAN : SaveDone(k, ok))

-----------------------------------------------------------------------------
(* Updates without a priority: the store with the field sets the note's      *)
(* handlers pass for a move, a resize, a new content and a new color         *)
(* (Note.tsx:61-64, 178-183, 196, 202)                                       *)

FrameUpdates ==
    << [x |-> 200, y |-> 200],
       [x |-> 200, y |-> 200, width |-> 400, height |-> 300],
       [content |-> "a"],
       [color |-> "blue"] >>

NextFrame ==
    \/ \E p \in CreatePoints :
            CreateNote(p[1], p[2], NumFrameIds, MaxFrameOffset) /\ UNCHANGED recency
    \/ \E id \in 1..NumFrameIds, k \in 1..Len(FrameUpdates) :
            UpdateNote(id, FrameUpdates[k], MaxFrameOffset) /\ UNCHANGED recency
    \/ \E id \in 1..NumFrameIds : DeleteNote(id) /\ UNCHANGED recency

SpecFrame == Init /\ [][NextFrame]_vars

-----------------------------------------------------------------------------
(* Identity: the store with generateId as the code has it, a string drawn   *)
(* by Math.random() with no check against the ids in use (App.tsx:26-28),   *)
(* and update(id, fields) with any fields of a note, its id included        *)
(* (updates: Partial<NoteType>, App.tsx:70).                                *)

\* the strings Math.random().toString(36).substr(2, 9) can give, numbered
DrawnIds == 1..NumIdentityIds

\* App.tsx:46-68 with the id generateId drew
CreateDrawn(id, noteX, noteY, cap) ==
    LET newNote == NewNote(id, noteX, noteY, selectedSize, viewport, notes)
    IN  /\ idsDrawn < NumIdentityNotes
        /\ idsDrawn' = idsDrawn + 1
        /\ notes' = Append(notes, newNote)
        /\ maxZIndex' = Max2(maxZIndex, newNote.zIndex)
        /\ OffsetsBounded(notes', maxZIndex', cap)
        /\ UNCHANGED draggedNoteId
        /\ PointerUnchanged
        /\ StoreWrite

\* field sets of update(id, fields): a move, a new content, a new id
IdentityUpdates ==
    << [x |-> 100, y |-> 100], [content |-> "a"] >>
        \o [k \in DrawnIds |-> [id |-> k]]

NextIdentity ==
    \/ \E id \in DrawnIds, p \in CreatePoints :
            CreateDrawn(id, p[1], p[2], MaxIdentityOffset) /\ UNCHANGED recency
    \/ \E id \in DrawnIds, k \in 1..Len(IdentityUpdates) :
            UpdateNote(id, IdentityUpdates[k], MaxIdentityOffset) /\ UNCHANGED recency
    \/ \E id \in DrawnIds : DeleteNote(id) /\ UNCHANGED recency

SpecIdentity == Init /\ [][NextIdentity]_vars

-----------------------------------------------------------------------------
(* Claims about the store, under Spec *)

TooSmall(note) == note.width < MinSize \/ note.height < MinSize

BelowFloor(updates) ==
    \/ Has(updates, "width") /\ updates.width < MinSize
    \/ Has(updates, "height") /\ updates.height < MinSize

C2_CarriedBelowFloor(j) ==
    /\ Len(notes') = Len(notes)
    /\ \E k \in 1..Len(UpdateSamples) :
          LET u == UpdateSamples[k]
          IN  /\ BelowFloor(u)
              /\ Has(u, "width") => notes'[j].width = u.width
              /\ Has(u, "height") => notes'[j].height = u.height
    /\ \A m \in Indices(notes) :
          notes[m].id # notes'[j].id =>
              /\ notes'[m].width = notes[m].width
              /\ notes'[m].height = notes[m].height

IsCreate == idsDrawn' = idsDrawn + 1

Created == notes'[Len(notes')]

\* C4 as stated: a created note gets zIndex 3000 + (number of notes of
\* priority 3 already in the store) + 1, whatever came before.
C4_CreateCountsNotes ==
    [][IsCreate =>
          Created.zIndex = PriorityBase(DefaultPriority)
              + Cardinality({i \in Indices(notes) : notes[i].priority = DefaultPriority}) + 1]_vars

\* C4 amended: a created note gets zIndex 3000 + (the highest zIndex % 1000
\* among the notes of priority 3 already in the store, 0 if there is none) + 1;
\* so 3001 in a store with no note of priority 3, and 3002 right after that.
C4_CreateAboveHighestOffset ==
    [][IsCreate =>
          LET offsets == {notes[i].zIndex % BandWidth :
                              i \in {j \in Indices(notes) : notes[j].priority = DefaultPriority}}
          IN  /\ Created.zIndex = PriorityBase(DefaultPriority) + 1 + MaxOf(offsets \cup {0})
              /\ offsets = {} => Created.zIndex = 3001
              /\ offsets = {1} => Created.zIndex = 3002]_vars

\* a second note was created (at the clamped position no update sample gives)
\* when the only other note, of priority 3, had offset 2: it got 3003, not 3002
C4_Witness ==
    /\ Len(notes) = 2
    /\ draggedNoteId = NoId
    /\ notes[1].priority = DefaultPriority /\ notes[1].zIndex = 3002
    /\ notes[2].x = 700 /\ notes[2].zIndex = 3003

\* C6 as stated: update(id, fields) with an id that is not in the store leaves
\* every note as it was, for every field set.
C6_UnknownIdIsNoOp ==
    \A id \in 1..NumIds, k \in 1..Len(UpdateSamples) :
        ~HasId(notes, id) => UpdateNoteResult(notes, id, UpdateSamples[k]) = notes

\* C7: delete(id) for an absent id leaves the collection as it was, and
\* deleting an id twice gives the same collection as deleting it once.
C7_DeleteAbsentIsNoOp ==
    \A id \in 1..NumIds :
        /\ ~HasId(notes, id) => DeleteNoteResult(notes, id) = notes
        /\ DeleteNoteResult(DeleteNoteResult(notes, id), id) = DeleteNoteResult(notes, id)

\* note 1 was created and deleted, note 2 is in the store: delete(1) is a
\* delete of an already-deleted id
C7_Witness == idsDrawn = 2 /\ ~HasId(notes, 1) /\ HasId(notes, 2)

\* C8: update(id, {}) for an existing id leaves every note, its zIndex and
\* geometry included, as it was.
C8_EmptyUpdateIsNoOp ==
    \A i \in Indices(notes) : UpdateNoteResult(notes, notes[i].id, << >>) = notes

\* two notes of one priority, the older one on top: a bring-to-front or a
\* renumbering by the empty update would show
C8_Witness ==
    /\ Len(notes) = 2
    /\ notes[1].priority = notes[2].priority
    /\ notes[1].zIndex > notes[2].zIndex

-----------------------------------------------------------------------------
(* Claims about layering, under SpecBoard *)

\* C1: for every two live notes A and B with A.priority < B.priority,
\* A.zIndex > B.zIndex, after every operation (drag-start included).
C1_PriorityOrdersLayers ==
    \A a, b \in Indices(notes) :
        notes[a].priority < notes[b].priority => notes[a].zIndex > notes[b].zIndex

\* C3: of two live notes of equal priority whose position or size has been
\* updated, the one updated most recently has the strictly higher zIndex.
\* recency lists the moved or resized notes by their latest update, latest last.
C3_LatestMovedOnTop ==
    \A k, m \in Indices(recency) :
        (/\ k < m
         /\ NoteOf(notes, recency[k]).priority = NoteOf(notes, recency[m]).priority)
        => NoteOf(notes, recency[m]).zIndex > NoteOf(notes, recency[k]).zIndex

\* C5: when update changes a note's priority to p, its new zIndex lies in
\* [base(p) + 1, base(p) + 999], and of every two other notes that share a
\* priority the one that was above the other before is above it after.
C5_PriorityChangeKeepsOrder ==
    [][\A i \in Indices(notes), p \in PrioritySamples :
          (/\ p # notes[i].priority
           /\ notes' = UpdateNoteResult(notes, notes[i].id, [priority |-> p]))
          => /\ notes'[i].zIndex >= PriorityBase(p) + 1
             /\ notes'[i].zIndex <= PriorityBase(p) + BandWidth - 1
             /\ \A a, b \in Indices(notes) \ {i} :
                   (/\ notes[a].priority = notes[b].priority
                    /\ notes[a].zIndex > notes[b].zIndex)
                   => notes'[a].zIndex > notes'[b].zIndex]_vars

-----------------------------------------------------------------------------
(* Claims about the pointer handlers, under SpecPointer *)

\* C9: for every drag in progress, of a note of any size, and every pointer
\* position, the position the drag handler emits satisfies
\* -(0.7 * width) <= x <= viewportWidth - 0.3 * width and the same for y and
\* height, so that at least 30% of the note's width and of its height lie
\* inside the viewport.  (Inequalities multiplied by 10; the width and height
\* the handler holds are those of the note in the store.)
C9_DragKeepsThirtyPercent ==
    \A k \in Indices(listeners) :
        listeners[k].kind = "drag" =>
            LET l == listeners[k]
            IN  /\ HasId(notes, l.id) =>
                      /\ NoteOf(notes, l.id).width = l.width
                      /\ NoteOf(notes, l.id).height = l.height
                /\ \A p \in PointerPoints :
                      LET e == DragEmission(l, p[1], p[2], viewport)
                      IN  /\ -(7 * l.width) <= 10 * e.x
                          /\ 10 * e.x <= 10 * viewport.width - 3 * l.width
                          /\ -(7 * l.height) <= 10 * e.y
                          /\ 10 * e.y <= 10 * viewport.height - 3 * l.height
                          /\ 10 * (Min2(e.x + l.width, viewport.width) - Max2(e.x, 0))
                                >= 3 * l.width
                          /\ 10 * (Min2(e.y + l.height, viewport.height) - Max2(e.y, 0))
                                >= 3 * l.height

\* a drag in progress has put the note at the lowest position the handler
\* emits, 70% of it beyond the left and the top edge of the viewport
C9_Witness ==
    /\ Len(notes) = 1 /\ Len(listeners) = 1
    /\ listeners[1].kind = "drag" /\ listeners[1].id = notes[1].id
    /\ 10 * notes[1].x = -(7 * notes[1].width)
    /\ 10 * notes[1].y = -(7 * notes[1].height)

\* C10: for a resize with the se handle, from every geometry a drag can leave
\* the note in and for every pointer position, the emitted x and y are the
\* note's x and y at the start of the gesture.
C10_SeResizeKeepsCorner ==
    \A k \in Indices(listeners) :
        (listeners[k].kind = "resize" /\ listeners[k].handle = "se") =>
            \A p \in PointerPoints :
                LET e == ResizeEmission(listeners[k], p[1], p[2], viewport)
                IN  e.x = listeners[k].initialX /\ e.y = listeners[k].initialY

\* the corner diagonally opposite the handle: where the gesture started, and
\* in the geometry e the resize handler emits
InitialAnchor(l) ==
    [x |-> IF l.handle \in {"sw", "nw"} THEN l.initialX + l.initialWidth ELSE l.initialX,
     y |-> IF l.handle \in {"ne", "nw"} THEN l.initialY + l.initialHeight ELSE l.initialY]

EmittedAnchor(l, e) ==
    [x |-> IF l.handle \in {"sw", "nw"} THEN e.x + e.width ELSE e.x,
     y |-> IF l.handle \in {"ne", "nw"} THEN e.y + e.height ELSE e.y]

\* C11: for a resize with the sw, ne or nw handle, the corner diagonally
\* opposite the handle, computed from the emitted geometry, stays where it
\* was at the start of the gesture, for every pointer position (also when the
\* 200px floor or the viewport clamp applies).
C11_ResizeKeepsOppositeCorner ==
    \A k \in Indices(listeners) :
        (listeners[k].kind = "resize" /\ listeners[k].handle \in {"sw", "ne", "nw"}) =>
            \A p \in PointerPoints :
                EmittedAnchor(listeners[k],
                              ResizeEmission(listeners[k], p[1], p[2], viewport))
                    = InitialAnchor(listeners[k])

-----------------------------------------------------------------------------
(* Claims about creation, under SpecCreate *)

\* C12: a freshly created note, for any supplied or random position and any
\* of the three sizes, has 0 <= x <= viewportWidth - width and
\* 0 <= y <= viewportHeight - height: it lies fully inside the viewport.
C12_CreatedInsideViewport ==
    [][IsCreate =>
          /\ 0 <= Created.x /\ Created.x <= viewport.width - Created.width
          /\ 0 <= Created.y /\ Created.y <= viewport.height - Created.height
          /\ Created.width = NOTE_SIZES[selectedSize].width
          /\ Created.height = NOTE_SIZES[selectedSize].height]_vars

\* a large note was created at a position supplied beyond the right and
\* bottom edge, and a small one at a position supplied before the origin:
\* both were brought to the nearest position inside the viewport
C12_Witness ==
    /\ Len(notes) = 2
    /\ notes[1].width = 400
    /\ notes[1].x = viewport.width - 400 /\ notes[1].y = viewport.height - 300
    /\ notes[2].width = 200
    /\ notes[2].x = 0 /\ notes[2].y = 0

-----------------------------------------------------------------------------
(* Claims about the debounced auto-save, under SpecDebounce *)

SaveStarted == Len(inFlight') > Len(inFlight)

\* C13: a saveAll is started only when the debounce delay has elapsed since
\* the most recent change of the note set, it is the first one since that
\* change and writes the current notes; until that write the timer of the
\* latest change is pending; and once the delay has elapsed with the timer
\* pending, the write is started unless a new change comes first:
\* a burst of changes gives exactly one write, after its last change.
C13_OneWriteAfterQuietDelay ==
    /\ [][SaveStarted =>
              /\ sinceChange = DebounceTicks
              /\ writesSinceChange = 0
              /\ inFlight'[Len(inFlight')].notes = notes]_vars
    /\ []((~isLoading /\ dbSupported /\ writesSinceChange = 0) => saveTimer # << >>)
    /\ ((saveTimer # << >> /\ sinceChange = DebounceTicks)
            ~> (writesSinceChange = 1 \/ sinceChange = 0))

\* a burst of two changes, an update within the delay of a create, was
\* followed by one write, now in flight with both changes in it
C13_Witness ==
    /\ Len(notes) = 1 /\ notes[1].zIndex = 3002 /\ persisted = {}
    /\ Len(inFlight) = 1 /\ inFlight[1].notes = notes
    /\ writesSinceChange = 1
    /\ issued = {"loadAll", "saveAll"}

-----------------------------------------------------------------------------
(* Claims about persistence, under SpecPersist *)

\* C14: once a saveAll started after the latest change of the note set has
\* succeeded, the persisted set equals the notes in memory, whatever other
\* saveAll or deleteOne calls failed or completed in another order.
C14_PersistedEqualsCurrent ==
    (dbSupported /\ settled) => persisted = NotesAsSet(notes)

\* C16: when the capability probe reported persistence as unsupported, no
\* loadAll, saveAll or deleteOne call is ever issued, pending or scheduled,
\* whatever notes are created, updated and deleted.
C16_UnsupportedIssuesNothing ==
    ~dbSupported => /\ issued = {}
                    /\ saveTimer = << >>
                    /\ ~loading /\ inFlight = << >> /\ deleting = {}

\* without support, a note was created and deleted again, and the debounce
\* delay has passed since
C16_Witness ==
    /\ ~dbSupported /\ ~isLoading
    /\ idsDrawn = 1 /\ notes = << >>
    /\ sinceChange = DebounceTicks

\* C17: at most one saveAll is in flight at any time.
C17_OneWriteInFlight == Len(inFlight) <= 1

-----------------------------------------------------------------------------
(* Claims about identity, under SpecIdentity *)

\* C15: the notes of the store have pairwise different ids, and no create or
\* update changes the id of a note (both keep every note at its position in
\* the array).
C15_IdImmutableAndUnique ==
    /\ [](\A i, j \in Indices(notes) : i # j => notes[i].id # notes[j].id)
    /\ [][Len(notes') >= Len(notes)
              => \A i \in Indices(notes) : notes'[i].id = notes[i].id]_vars

-----------------------------------------------------------------------------
(* Claims about drag gestures and the trash zone, under SpecGesture *)

PointerUp == mouseDown /\ ~mouseDown'

\* C18: the board leaves Dragging(noteId) only at a pointer-up and then
\* to Idle, and every pointer-up leaves it Idle; a pointer-up over the padded
\* trash zone deletes the dragged note and changes nothing else, any other
\* pointer-up leaves the notes as they are; and the delayed drag-end callback
\* changes neither the notes nor the drag state.
C18_DragEndsOnceAtPointerUp ==
    /\ [][(draggedNoteId # NoId /\ draggedNoteId' # draggedNoteId)
              => (PointerUp /\ draggedNoteId' = NoId)]_vars
    /\ [][PointerUp => draggedNoteId' = NoId]_vars
    /\ [][PointerUp =>
              \/ notes' = notes
              \/ /\ HasId(notes, draggedNoteId)
                 /\ notes' = SelectSeq(notes, LAMBDA n : n.id # draggedNoteId)]_vars
    /\ [][\A p \in GesturePoints :
              (MouseUp(p[1], p[2]) /\ draggedNoteId # NoId /\ HasId(notes, draggedNoteId))
                  => (IsOverTrash(p[1], p[2], viewport) <=> ~HasId(notes', draggedNoteId))]_vars
    /\ [][Len(timers') < Len(timers)
              => (notes' = notes /\ draggedNoteId' = draggedNoteId)]_vars

\* a note was dropped on the trash: it is gone, the other note is where it
\* was created, the board is Idle and the gesture's listeners are still on
\* the document
C18_Witness ==
    /\ ~mouseDown /\ draggedNoteId = NoId
    /\ idsDrawn = 2 /\ Len(notes) = 1 /\ notes[1].x = 100 /\ notes[1].y = 100
    /\ \E k \in Indices(listeners) :
            listeners[k].kind = "drag" /\ ~HasId(notes, listeners[k].id)

\* the listeners a trash drop left on the document: their note is gone
StaleListeners == SelectSeq(listeners, LAMBDA l : ~HasId(notes, l.id))

LiveListeners == SelectSeq(listeners, LAMBDA l : HasId(notes, l.id))

\* C19: once a note is gone from the board it never comes back; a pointer
\* move handled by the listeners of a deleted note leaves the notes as they
\* are, so a move changes the notes as the other listeners alone would; and
\* a delayed drag-end callback leaves the notes as they are.
C19_DeletedNoteStaysDeleted ==
    /\ [][\A id \in 1..idsDrawn : ~HasId(notes, id) => ~HasId(notes', id)]_vars
    /\ [](\A p \in GesturePoints :
              MouseMoveResult(notes, StaleListeners, p[1], p[2], viewport) = notes)
    /\ [][\A p \in GesturePoints :
              MouseMove(p[1], p[2], MaxGestureOffset)
                  => notes' = MouseMoveResult(notes, LiveListeners, p[1], p[2], viewport)]_vars
    /\ [](\A k \in Indices(timers) : DragEndResult(notes, timers[k], viewport) = notes)

\* after a note was dropped on the trash, the other note is being dragged
\* and was moved while the deleted note's listener is still on the document
C19_Witness ==
    /\ mouseDown /\ draggedNoteId # NoId
    /\ Len(notes) = 1 /\ notes[1].id = draggedNoteId /\ notes[1].x # 100
    /\ StaleListeners # << >> /\ LiveListeners # << >>

\* C20: immediately after drag-start on a note, its zIndex is strictly
\* greater than the zIndex of every other note on the board.
C20_DragStartOnTop ==
    [][(draggedNoteId' # NoId /\ draggedNoteId' # draggedNoteId)
          => \A i, j \in Indices(notes') :
                 (notes'[i].id = draggedNoteId' /\ j # i)
                     => notes'[i].zIndex > notes'[j].zIndex]_vars

-----------------------------------------------------------------------------
(* Claims about priority bands, under Spec *)

\* C21: every note's zIndex lies inside the band of its own priority:
\* base(priority) < zIndex < base(priority) + 1000.
C21_ZIndexInsideOwnBand ==
    \A i \in Indices(notes) :
        /\ PriorityBase(notes[i].priority) < notes[i].zIndex
        /\ notes[i].zIndex < PriorityBase(notes[i].priority) + BandWidth

-----------------------------------------------------------------------------
(* Claims about the resize bounds, under SpecPointer *)

\* where the pointer is during a resize: mousemove reaches the document's
\* listener (Note.tsx:94-96, 191) with any clientX, clientY, also beyond the
\* window's edge while the button is held
ResizePoints == PointerPoints \cup {<<-800, -600>>}

\* the drag rule's bounds on a geometry e (inequalities multiplied by 10)
ThirtyPercentVisible(e, vp) ==
    /\ -(7 * e.width) <= 10 * e.x
    /\ 10 * e.x <= 10 * vp.width - 3 * e.width
    /\ -(7 * e.height) <= 10 * e.y
    /\ 10 * e.y <= 10 * vp.height - 3 * e.height

\* C22: for every resize in progress, with any handle, and every pointer
\* position, the geometry the resize handler emits satisfies the drag rule's
\* 30%-visible bounds computed on the emitted width and height.
C22_ResizeKeepsThirtyPercent ==
    \A k \in Indices(listeners) :
        listeners[k].kind = "resize" =>
            \A p \in ResizePoints :
                ThirtyPercentVisible(
                    ResizeEmission(listeners[k], p[1], p[2], viewport), viewport)

-----------------------------------------------------------------------------
(* Claims about updates without a priority, under SpecFrame *)

\* C23: an update of an existing note with a field set that carries no
\* priority leaves every other note as it was, all fields and zIndex
\* included; and when the field set carries only content or color, the
\* target's x, y, width, height, priority and zIndex are as they were too.
C23_UpdateChangesOnlyTarget ==
    [][\A id \in 1..NumFrameIds, k \in 1..Len(FrameUpdates) :
          (HasId(notes, id) /\ UpdateNote(id, FrameUpdates[k], MaxFrameOffset)) =>
              /\ Len(notes') = Len(notes)
              /\ \A i \in Indices(notes) :
                    /\ notes'[i].id = notes[i].id
                    /\ notes[i].id # id => notes'[i] = notes[i]
                    /\ (notes[i].id = id
                            /\ DOMAIN FrameUpdates[k] \subseteq {"content", "color"})
                        => /\ notes'[i].x = notes[i].x
                           /\ notes'[i].y = notes[i].y
                           /\ notes'[i].width = notes[i].width
                           /\ notes'[i].height = notes[i].height
                           /\ notes'[i].priority = notes[i].priority
                           /\ notes'[i].zIndex = notes[i].zIndex]_vars

\* two notes, the older one moved to the front of the newer one and then
\* given a new content and a new color while it stayed where the move put it
C23_Witness ==
    /\ Len(notes) = 2
    /\ notes[1].zIndex = 3003 /\ notes[2].zIndex = 3002
    /\ notes[1].x = 200 /\ notes[1].y = 200
    /\ notes[1].content = "a" /\ notes[1].color = "blue"
    /\ notes[2].content = "" /\ notes[2].color = "yellow"

-----------------------------------------------------------------------------
(* Claims about startup, under SpecPersist *)

\* C24: while the startup load has not finished, the debounce timer is not
\* armed and no saveAll has been issued or is in flight, so what is
\* persisted is what the earlier session left.
C24_NoWriteBeforeLoadFinished ==
    isLoading => /\ saveTimer = << >>
                 /\ inFlight = << >>
                 /\ "saveAll" \notin issued
                 /\ persisted \in StoredSets

\* the load is pending over a stored note, and the debounce delay has passed
\* since the application started
C24_Witness ==
    /\ isLoading /\ loading
    /\ persisted = {StoredNote}
    /\ sinceChange = DebounceTicks

PersistedIds(S) == {n.id : n \in S}

\* C25: as long as the user has created and deleted nothing, no step changes
\* the ids of the persisted notes, also when the startup load failed.
C25_StartupKeepsPersistedIds ==
    [][(idsDrawn' = 0 /\ "deleteOne" \notin issued')
          => PersistedIds(persisted') = PersistedIds(persisted)]_vars

====
